---- MODULE Spec2Model ----
(***************************************************************************)
(* Publish pipeline of CaptionPilot: the background scheduler              *)
(* (src/lib/scheduler.ts), the publish orchestrator                        *)
(* (src/lib/postUpload.ts) and the post store (src/lib/db.ts).             *)
(*                                                                         *)
(* The program is single-threaded JavaScript: the code between two awaits  *)
(* runs atomically, so every action below is the code from one await to    *)
(* the next.  A store write takes effect in the action that completes the  *)
(* awaited updateDraftPost.                                                *)
(***************************************************************************)
EXTENDS Integers, Sequences, FiniteSets, TLC

\* ---------------------------------------------------------------- bounds
MaxPosts == 2          \* posts in the store
MaxRuns == 2           \* checks and direct orchestrator calls started in a behaviour
MaxClockSteps == 1     \* clock advances in a behaviour
MaxImages == 2         \* images of a post
MaxCalls == 5          \* calls of start() and stop() in a behaviour
MaxTicks == 2          \* interval callbacks in a behaviour

\* ------------------------------------------------------ program constants
MsPerHour == 3600000   \* scheduler.ts:106  (60 * 60 * 1000)
TimerPeriod == 3600000 \* scheduler.ts:30   setInterval period

ClockStep == MsPerHour
StartTime == 3 * MsPerHour
HoursChoices == {2}
PostIds == 1..MaxPosts
\* two async call chains overlap at most: a check or a manual publish each
Tasks == {1, 2}

\* an optional value (undefined | v) is the sequence <<>> | <<v>>
None == <<>>
Some(v) == <<v>>
IsSet(o) == Len(o) > 0

VARIABLES
  store,        \* IndexedDB object store "draftPosts": id -> record
  schedule,     \* the instagram schedule record, None when absent
  now,          \* Date.now()
  nextFire,     \* time at which the interval timer fires next
  tasks,        \* the async call chains: pc and locals of each
  runs,         \* number of call chains started so far
  lastInvoke,   \* history: time of the latest scheduler-initiated
                \* orchestrator invocation, None before the first
  deleted,      \* history: ids the user deleted (Settings, deleteDraftPost)
  igRun,        \* one call of publishInstagramPost: pc, locals, request log
  batch,        \* one call of uploadMultipleImagesToCloudinary
  dbFails,      \* environment: whether IndexedDB requests can fail in this
                \* behaviour (quota exceeded, database blocked or closed)
  sched         \* the PostScheduler object and the interval timers it set

\* environment switch and scheduler object
others == <<dbFails, sched>>

\* what the pipeline itself never touches
aside == <<deleted, igRun, batch, others>>

\* the variables of scheduler, orchestrator and store
pipeline == <<store, schedule, now, nextFire, tasks, runs, lastInvoke>>

vars == <<store, schedule, now, nextFire, tasks, runs, lastInvoke, aside>>

\* ------------------------------------------------------------ post store
\* typeof position === 'number' ? position : -1
Pos(p) == IF IsSet(p.position) THEN p.position[1] ELSE -1

\* comparator of listDraftPosts: negative when a sorts before b
DbCompare(a, b) ==
  IF IsSet(a.position) /\ IsSet(b.position) THEN a.position[1] - b.position[1]
  ELSE IF IsSet(a.position) THEN -1
  ELSE IF IsSet(b.position) THEN 1
  ELSE b.createdAt - a.createdAt

\* Array.prototype.sort is stable: x, the last element, goes after every
\* element it does not sort strictly before
RECURSIVE InsertDb(_, _)
InsertDb(r, x) ==
  IF r = <<>> THEN <<x>>
  ELSE IF DbCompare(x, r[Len(r)]) < 0
       THEN InsertDb(SubSeq(r, 1, Len(r) - 1), x) \o <<r[Len(r)]>>
       ELSE r \o <<x>>

RECURSIVE SortDb(_)
SortDb(s) ==
  IF s = <<>> THEN <<>>
  ELSE InsertDb(SortDb(SubSeq(s, 1, Len(s) - 1)), s[Len(s)])

\* store.getAll(): the records in key order
RECURSIVE GetAll(_, _)
GetAll(s, k) ==
  IF k > MaxPosts THEN <<>>
  ELSE (IF k \in DOMAIN s THEN <<s[k]>> ELSE <<>>) \o GetAll(s, k + 1)

ListDraftPosts(s) == SortDb(GetAll(s, 1))

\* store.put(post)
UpdateDraftPost(s, post) ==
  [k \in (DOMAIN s) \cup {post.id} |-> IF k = post.id THEN post ELSE s[k]]

\* ------------------------------------------------------------- scheduler
\* allPosts.filter(post => post.platform === 'instagram' && post.status === 'published')
IsPublishedPost(p) == p.platform = "instagram" /\ p.status = "published"

\* allPosts.filter(post => post.platform === 'instagram' && post.status !== 'published')
IsUnpublishedPost(p) == p.platform = "instagram" /\ p.status # "published"

RECURSIVE MaxCreatedAt(_)
MaxCreatedAt(s) ==
  IF Len(s) = 1 THEN s[1].createdAt
  ELSE LET m == MaxCreatedAt(Tail(s))
       IN IF s[1].createdAt > m THEN s[1].createdAt ELSE m

\* publishedPosts.length > 0 ? Math.max(...createdAt) : 0
LastPublishedTime(s) ==
  LET publishedPosts == SelectSeq(ListDraftPosts(s), IsPublishedPost)
  IN IF Len(publishedPosts) > 0 THEN MaxCreatedAt(publishedPosts) ELSE 0

\* timeSinceLastPost < requiredInterval, with timeSinceLastPost = Infinity
\* when lastPublishedTime is 0
TimeNotReady(s, clock, hoursBetweenPosts) ==
  LET lastPublishedTime == LastPublishedTime(s)
      requiredInterval == hoursBetweenPosts * MsPerHour
  IN lastPublishedTime # 0 /\ clock - lastPublishedTime < requiredInterval

\* the comparator of findNextPostToPublish: bPos - aPos
PrioCompare(a, b) == Pos(b) - Pos(a)

RECURSIVE InsertPrio(_, _)
InsertPrio(r, x) ==
  IF r = <<>> THEN <<x>>
  ELSE IF PrioCompare(x, r[Len(r)]) < 0
       THEN InsertPrio(SubSeq(r, 1, Len(r) - 1), x) \o <<r[Len(r)]>>
       ELSE r \o <<x>>

RECURSIVE SortPrio(_)
SortPrio(s) ==
  IF s = <<>> THEN <<>>
  ELSE InsertPrio(SortPrio(SubSeq(s, 1, Len(s) - 1)), s[Len(s)])

\* findNextPostToPublish: None, or the first of the sorted unpublished posts
FindNextPostToPublish(s) ==
  LET unpublishedPosts == SelectSeq(ListDraftPosts(s), IsUnpublishedPost)
  IN IF Len(unpublishedPosts) = 0 THEN None
     ELSE Some(SortPrio(unpublishedPosts)[1])

\* ---------------------------------------------------------- orchestrator
\* the UploadResult object
Result(ok, imgs, pid, cid, err) ==
  [success |-> ok, cloudinaryImages |-> imgs, instagramPostId |-> pid,
   instagramContainerId |-> cid, error |-> err]

\* the saved settings are no JSON: JSON.parse throws
Malformed(st) == IsSet(st) /\ ~st[1].json

\* getCloudinaryConfig(): null unless cloud name and upload preset are saved;
\* its catch turns a JSON.parse error into null
GetCloudinaryConfig(st) == IsSet(st) /\ st[1].json /\ st[1].cloudinary

\* settings present and appSettings.instagramUserToken truthy
HasInstagramToken(st) == IsSet(st) /\ st[1].json /\ st[1].instagramUserToken

\* variant: the fresh uploads are added to the ones the post carries
UpdatedPostAppended(post, successfulUploads) ==
  [post EXCEPT !.cloudinaryImages = @ \o successfulUploads, !.status = "new"]

\* { ...post, cloudinaryImages: successfulUploads, status: 'new' }
UpdatedPost(post, successfulUploads) ==
  [post EXCEPT !.cloudinaryImages = successfulUploads, !.status = "new"]

\* { ...updatedPost, instagramPostId, instagramContainerId }
FinalUpdatedPost(updatedPost, ig) ==
  [updatedPost EXCEPT !.instagramPostId = Some(ig.publishedPostId),
                      !.instagramContainerId = Some(ig.containerId)]

\* publishPost: { ...post, status: 'published', instagramPostId:
\* result.instagramPostId, instagramContainerId: result.instagramContainerId }
PublishedPost(post, result) ==
  [post EXCEPT !.status = "published",
               !.instagramPostId = result.instagramPostId,
               !.instagramContainerId = result.instagramContainerId]

\* variant: only a missing record stops the check
PausedIfMissing(sch) == ~IsSet(sch)

\* !schedule || !schedule.isActive
Paused(sch) == IF IsSet(sch) THEN ~sch[1].isActive ELSE TRUE

\* ------------------------------------------------------------ call chains
IdleTask ==
  [kind |-> "idle", pc |-> "idle", run |-> 0, hours |-> 0, post |-> None,
   uploadResults |-> <<>>, ig |-> None, result |-> None,
   writes |-> 0, igCalls |-> 0,
   config |-> FALSE, userToken |-> FALSE, caption |-> None,
   malformed |-> FALSE, missing |-> 0]

FreeTasks == {t \in Tasks : tasks[t].kind = "idle"}
CanSpawn == runs < MaxRuns /\ FreeTasks # {}
FreeTask == CHOOSE t \in FreeTasks : \A u \in FreeTasks : t <= u

\* checkAndPublishPosts() up to its first await (getScheduleConfigByType)
CheckTask(run) ==
  [IdleTask EXCEPT !.kind = "check", !.pc = "getSchedule", !.run = run]

SpawnCheck ==
  /\ tasks' = [tasks EXCEPT ![FreeTask] = CheckTask(runs + 1)]
  /\ runs' = runs + 1

\* the orchestrator returns: a manual caller gets the result; publishPost
\* goes on, in the same turn, to call updateDraftPost(updatedPost)
Return(tk, result) ==
  [tk EXCEPT !.result = Some(result),
             !.pc = IF tk.kind = "check" THEN "markPublished" ELSE "returned"]

\* variant: the error leaves checkInstagramSchedule and the check rejects
CaughtAndRethrown(tk) == [IdleTask EXCEPT !.kind = "rejected", !.pc = "rejected"]

\* what the check does once its try block has thrown: the catch of
\* checkInstagramSchedule logs, the check resolves
Caught(tk) == IdleTask

\* variant: the run goes on to load the images without a configuration
OrchEnterUnchecked(tk, post, settings) ==
  IF Len(post.images) = 0
  THEN Return([tk EXCEPT !.post = Some(post),
                         !.config = GetCloudinaryConfig(settings)],
              Result(FALSE, <<>>, None, None, "No images found to upload"))
  ELSE [tk EXCEPT !.post = Some(post), !.config = GetCloudinaryConfig(settings),
                  !.pc = "loadImages"]

\* uploadInstagramPostImages(post) up to its first await: the configuration
\* check, then the first loadImageFile
OrchEnter(tk, post, settings) ==
  IF ~GetCloudinaryConfig(settings)
  THEN Return([tk EXCEPT !.post = Some(post)],
              Result(FALSE, <<>>, None, None, "Cloudinary configuration not found"))
  ELSE IF Len(post.images) = 0
  THEN Return([tk EXCEPT !.post = Some(post), !.config = TRUE],
              Result(FALSE, <<>>, None, None, "No images found to upload"))
  ELSE [tk EXCEPT !.post = Some(post), !.config = TRUE, !.pc = "loadImages"]

\* ------------------------------------------------- publishInstagramPost
\* ids the Graph API hands out; it may hand out the same id twice
RemoteIds == {"17", "18"}

\* how a fetch can fail: it rejects, answers with a status that is not ok,
\* or answers ok with an error object in the body
Failures ==
  {[kind |-> "network"]}
    \cup {[kind |-> "http", status |-> st] : st \in {"401", "500"}}
    \cup {[kind |-> "body", error |-> [message |-> "Invalid OAuth access token", code |-> "190"]]}

\* the first words of the message thrown on a status that is not ok
HttpMessage(what, i) ==
  CASE what = "pages" -> <<"Failed to get pages">>
    [] what = "account" -> <<"Failed to get Instagram business account">>
    [] what = "single" -> <<"Failed to create single image container">>
    [] what = "child" -> <<"Failed to create carousel item", ToString(i)>>
    [] what = "parent" -> <<"Failed to create carousel container">>
    [] what = "publish" -> <<"Failed to publish media container">>

\* the Error that request `what` (for image i) throws on failure f; what
\* fetch itself throws is passed on as it is
IgError(what, i, f) ==
  CASE f.kind = "network" -> <<"Failed to fetch">>
    [] f.kind = "http" -> HttpMessage(what, i) \o <<"HTTP status", f.status>>
    [] f.kind = "body" -> <<"Instagram API error", f.error.message, "Code", f.error.code>>

NoPagesError == <<"No Facebook pages found">>
NoAccountError == <<"No Instagram business account found">>

\* the step of the protocol a request belongs to
StepOf(what) ==
  CASE what = "pages" -> 1
    [] what = "account" -> 2
    [] what \in {"single", "child", "parent"} -> 3
    [] what = "publish" -> 4

\* childContainerIds.join(',')
RECURSIVE Join(_)
Join(ids) ==
  IF Len(ids) = 0 THEN <<>>
  ELSE IF Len(ids) = 1 THEN <<ids[1]>>
  ELSE Join(SubSeq(ids, 1, Len(ids) - 1)) \o <<",", ids[Len(ids)]>>

\* variant: the newest id goes to the front
PushFront(containerIds, id) == <<id>> \o containerIds

\* containerIds.push(data.id)
Push(containerIds, id) == Append(containerIds, id)

\* variant: two images still go out as one single-image container
IsSingleImageOrPair(imageUrls) == Len(imageUrls) <= 2

\* imageUrls.length === 1
IsSingleImage(imageUrls) == Len(imageUrls) = 1

\* a request as it goes out, with the id of the answer once it is in
Request(what, imageUrl, children, caption, creationId) ==
  [what |-> what, image_url |-> imageUrl, children |-> children,
   caption |-> caption, creation_id |-> creationId, reply |-> None]

IgIdle ==
  [pc |-> "idle", imageUrls |-> <<>>, caption |-> "", requests |-> <<>>,
   instagramUserId |-> None, containerIds |-> <<>>, container |-> None,
   result |-> None, error |-> None, failed |-> None]

\* the request is sent: appended to the log, the call waits for the answer
Send(g, pc, request) ==
  [g EXCEPT !.pc = pc, !.requests = Append(@, request)]

\* the answer to the latest request carries id
Answered(g, id) ==
  [g EXCEPT !.requests[Len(g.requests)].reply = Some(id)]

\* the call rejects with err; `what` is the request that failed
Throw(g, what, err) ==
  [g EXCEPT !.pc = "failed", !.error = Some(err), !.failed = Some(what)]

\* the image lists a call is made with
RECURSIVE UrlLists(_)
UrlLists(n) ==
  IF n = 0 THEN {}
  ELSE UrlLists(n - 1) \cup {[i \in 1..n |-> <<"url", i>>]}
                       \cup {[i \in 1..n |-> <<"url", n + 1 - i>>]}

\* ------------------------------------- uploadMultipleImagesToCloudinary
\* what the upload endpoint does with one file: fetch rejects; it answers
\* with a status that is not ok and a JSON body (with or without
\* error.message) or a body that is no JSON; it answers ok with the upload
\* record, with a body that is no JSON, or with JSON that is no upload record
Answers ==
  {[kind |-> "network"]}
    \cup {[kind |-> "http", status |-> "400", body |-> b] :
            b \in {"error message", "no message", "no json"}}
    \cup {[kind |-> "ok", body |-> b] : b \in {"upload", "no json", "no upload"}}

\* the answer is none of a finished upload
IsFailure(a) == ~(a.kind = "ok" /\ a.body = "upload")

\* what uploadImageToCloudinary(file) resolves to when the endpoint did a
UploadImageToCloudinary(file, a) ==
  IF a.kind = "network" THEN [error |-> [message |-> "Failed to fetch"]]
  ELSE IF a.body = "no json" THEN [error |-> [message |-> "Unexpected token"]]
  ELSE IF a.kind = "http"
  THEN [error |-> [message |-> IF a.body = "error message" THEN "Invalid image file"
                               ELSE "Upload failed with status " \o a.status,
                   http_code |-> a.status]]
  ELSE IF a.body = "upload"
  THEN [publicId |-> Some(<<"id", file>>), secureUrl |-> Some(<<"https", file>>)]
  ELSE [publicId |-> None, secureUrl |-> None]

BatchIdle ==
  [pc |-> "idle", files |-> <<>>, answers |-> <<>>, settled |-> <<>>,
   order |-> <<>>, returned |-> None]

\* the file lists a batch is made of
RECURSIVE FileLists(_)
FileLists(n) ==
  IF n = 0 THEN {}
  ELSE FileLists(n - 1) \cup {[i \in 1..n |-> <<"file", i>>]}
                        \cup {[i \in 1..n |-> <<"file", n + 1 - i>>]}

\* ------------------------------------------------------ PostScheduler
\* the object as constructed: intervalId = null, isRunning = false; timers
\* are the intervals set and not cleared, nextTimer the id setInterval hands
\* out next, checks the number of checkAndPublishPosts calls, calls the
\* start and stop calls made, fired the interval callbacks run
SchedIdle ==
  [isRunning |-> FALSE, intervalId |-> None, timers |-> {}, nextTimer |-> 1,
   checks |-> 0, calls |-> <<>>, fired |-> 0]

\* a value as a condition: null and 0 are falsy, a timer id is a positive
\* integer
Truthy(o) == IsSet(o) /\ o[1] # 0

\* getStatus(): { isRunning, hasInterval: !!this.intervalId }
GetStatus(sc) == [isRunning |-> sc.isRunning, hasInterval |-> Truthy(sc.intervalId)]

\* how an IndexedDB request can end: TRUE when it succeeds
DbOutcomes == IF dbFails THEN BOOLEAN ELSE {TRUE}

\* ------------------------------------------------------------------ Init
\* a post as NewPostDialog creates it: status 'new', nothing uploaded
NewPost(id, createdAt, position) ==
  [id |-> id, createdAt |-> createdAt, position |-> position,
   status |-> "new", platform |-> "instagram", caption |-> "caption",
   images |-> [i \in 1..(MaxImages - ((id - 1) % MaxImages)) |-> i],
   cloudinaryImages |-> <<>>, instagramPostId |-> None,
   instagramContainerId |-> None]

\* the posts were created one after the other before the clock starts
CreatedAt(id) == (((id - 1) % 2) + 1) * MsPerHour
\* the first post is on top of the grid or, written by an older version, has
\* no position; the others share the bottom place
PositionChoices(id) == IF id = 1 THEN {None, Some(1)} ELSE {Some(0)}
\* the instagram schedule record: absent, or as ScheduleButton.handlePlay
\* and handlePause leave it
ScheduleChoices ==
  {None} \cup {Some([isActive |-> a, hoursBetweenPosts |-> h]) :
                a \in BOOLEAN, h \in HoursChoices}
\* localStorage "app-settings" as a read finds it
SettingsChoices ==
  {None,
   Some([json |-> TRUE, cloudinary |-> TRUE, instagramUserToken |-> FALSE]),
   Some([json |-> TRUE, cloudinary |-> TRUE, instagramUserToken |-> TRUE]),
   Some([json |-> FALSE, cloudinary |-> FALSE, instagramUserToken |-> FALSE])}

\* the module starts the scheduler when it is loaded: the immediate check is
\* in flight and the interval timer is set
Init ==
  /\ \E ps \in [PostIds -> {None, Some(0), Some(1)}] :
       /\ \A k \in PostIds : ps[k] \in PositionChoices(k)
       /\ store = [k \in PostIds |-> NewPost(k, CreatedAt(k), ps[k])]
  /\ schedule \in ScheduleChoices
  /\ now = StartTime
  /\ nextFire = StartTime + TimerPeriod
  /\ tasks = [t \in Tasks |-> IF t = 1 THEN CheckTask(1) ELSE IdleTask]
  /\ runs = 1
  /\ lastInvoke = None
  /\ deleted = {}
  /\ igRun = IgIdle
  /\ batch = BatchIdle
  /\ dbFails = FALSE
  /\ sched = SchedIdle

\* ------------------------------------------------------- scheduler object
TimerDue == now >= nextFire

\* the setInterval callback
TimerTick ==
  /\ TimerDue
  /\ CanSpawn
  /\ SpawnCheck
  /\ nextFire' = nextFire + TimerPeriod
  /\ UNCHANGED <<store, schedule, now, lastInvoke, aside>>

\* PostScheduler.triggerCheck
TriggerCheck ==
  /\ CanSpawn
  /\ SpawnCheck
  /\ UNCHANGED <<store, schedule, now, nextFire, lastInvoke, aside>>

\* wall-clock time passes; a due timer callback runs first
Advance ==
  /\ now < StartTime + MaxClockSteps * ClockStep
  /\ TimerDue => ~CanSpawn
  /\ now' = now + ClockStep
  /\ UNCHANGED <<store, schedule, nextFire, tasks, runs, lastInvoke, aside>>

\* --------------------------------------------- checkInstagramSchedule
\* getScheduleConfigByType resolved, the isActive guard follows; or it
\* rejected
GetSchedule(t) ==
  /\ tasks[t].pc = "getSchedule"
  /\ \E read \in DbOutcomes :
       tasks' = [tasks EXCEPT ![t] =
         IF ~read THEN Caught(@)
         ELSE IF Paused(schedule) THEN IdleTask
         ELSE [@ EXCEPT !.pc = "listPublished",
                        !.hours = schedule[1].hoursBetweenPosts]]
  /\ UNCHANGED <<store, schedule, now, nextFire, runs, lastInvoke, aside>>

\* listDraftPosts resolved, the pacing guard follows; or it rejected
ListPublished(t) ==
  /\ tasks[t].pc = "listPublished"
  /\ \E read \in DbOutcomes :
       tasks' = [tasks EXCEPT ![t] =
         IF ~read THEN Caught(@)
         ELSE IF TimeNotReady(store, now, tasks[t].hours) THEN IdleTask
         ELSE [@ EXCEPT !.pc = "findNext"]]
  /\ UNCHANGED <<store, schedule, now, nextFire, runs, lastInvoke, aside>>

\* findNextPostToPublish resolved (with null when its listDraftPosts
\* rejected); publishPost calls the orchestrator
FindNext(t) ==
  /\ tasks[t].pc = "findNext"
  /\ \E settings \in SettingsChoices, read \in DbOutcomes :
     LET nextPost == IF read THEN FindNextPostToPublish(store) ELSE None
     IN IF ~IsSet(nextPost)
        THEN /\ tasks' = [tasks EXCEPT ![t] = IdleTask]
             /\ UNCHANGED lastInvoke
        ELSE /\ tasks' = [tasks EXCEPT ![t] =
                            OrchEnter([tasks[t] EXCEPT !.hours = 0], nextPost[1], settings)]
             /\ lastInvoke' = Some(now)
  /\ UNCHANGED <<store, schedule, now, nextFire, runs, aside>>

\* ------------------------------------------- uploadInstagramPostImages
\* a manual publish: the orchestrator called on the stored record
DirectPublish(id) ==
  /\ CanSpawn
  /\ id \in DOMAIN store
  /\ \E settings \in SettingsChoices :
       tasks' = [tasks EXCEPT ![FreeTask] =
                   OrchEnter([IdleTask EXCEPT !.kind = "direct", !.run = runs + 1],
                             store[id], settings)]
  /\ runs' = runs + 1
  /\ UNCHANGED <<store, schedule, now, nextFire, lastInvoke, aside>>

\* variant: an image that does not load is left out of the batch
LoadImagesPartial(t) ==
  /\ tasks[t].pc = "loadImages"
  /\ \E missing \in 0..Len(tasks[t].post[1].images) :
       tasks' = [tasks EXCEPT ![t] = [@ EXCEPT !.pc = "upload", !.missing = missing]]
  /\ UNCHANGED <<store, schedule, now, nextFire, runs, lastInvoke, aside>>

\* the loadImageFile loop: every image loads, or loadImageFile returns null
\* for image `missing` and the run returns naming its file
LoadImages(t) ==
  /\ tasks[t].pc = "loadImages"
  /\ \E missing \in 0..Len(tasks[t].post[1].images) :
       tasks' = [tasks EXCEPT ![t] =
         IF missing = 0
         THEN [@ EXCEPT !.pc = "upload"]
         ELSE Return([@ EXCEPT !.missing = missing],
                     Result(FALSE, <<>>, None, None,
                            "Failed to load image "
                              \o ToString(tasks[t].post[1].images[missing])))]
  /\ UNCHANGED <<store, schedule, now, nextFire, runs, lastInvoke, aside>>

\* 'error' in result
IsError(r) == "error" \in DOMAIN r

\* uploadResults.filter(result => 'error' in result)
Errors(uploadResults) == SelectSeq(uploadResults, IsError)

IsUpload(r) == ~IsError(r)

\* uploadResults.filter(result => !('error' in result))
SuccessfulUploads(uploadResults) == SelectSeq(uploadResults, IsUpload)

\* variant: a batch counts as uploaded as soon as one file went through
UploadSucceededIfAny(uploadResults) ==
  ~(Len(SuccessfulUploads(uploadResults)) = 0)

\* the two checks on the batch: TRUE when the run goes on to persist
UploadSucceeded(uploadResults) ==
  /\ ~(Len(Errors(uploadResults)) > 0)
  /\ ~(Len(SuccessfulUploads(uploadResults)) = 0)

\* what uploadImageToCloudinary resolves to for file i of a run
UploadOutcomes(run, i) ==
  {[secureUrl |-> <<run, i>>], [error |-> "upload failed"]}

\* uploadMultipleImagesToCloudinary resolved: one result per file
UploadDone(t) ==
  /\ tasks[t].pc = "upload"
  /\ \E uploadResults \in [DOMAIN tasks[t].post[1].images ->
                             UNION {UploadOutcomes(tasks[t].run, i) :
                                      i \in DOMAIN tasks[t].post[1].images}] :
       /\ \A i \in DOMAIN uploadResults :
            uploadResults[i] \in UploadOutcomes(tasks[t].run, i)
       /\ tasks' = [tasks EXCEPT ![t] =
            IF UploadSucceeded(uploadResults)
            THEN [@ EXCEPT !.pc = "persistUpload", !.uploadResults = uploadResults]
            ELSE Return([@ EXCEPT !.uploadResults = uploadResults],
                        Result(FALSE, <<>>, None, None, "Failed to upload images"))]
  /\ UNCHANGED <<store, schedule, now, nextFire, runs, lastInvoke, aside>>

\* what a failed IndexedDB request rejects with (req.error)
StoreError == "QuotaExceededError"

\* variant: the error leaves uploadInstagramPostImages
OuterCatchRethrown(tk, message) == [tk EXCEPT !.pc = "thrown"]

\* the outer catch: { success: false, error: error.message }
OuterCatch(tk, message) == Return(tk, Result(FALSE, <<>>, None, None, message))

\* the inner catch: { success: true, cloudinaryImages: successfulUploads,
\* error: 'Images uploaded ..., but failed to publish to Instagram: ...' }
InnerCatch(tk, message) ==
  Return(tk, Result(TRUE, SuccessfulUploads(tk.uploadResults), None, None,
                    "failed to publish to Instagram: " \o message))

\* variant: the credentials check and the call of publishInstagramPost come
\* without the write of updatedPost
PersistUploadSkipped(t) ==
  /\ tasks[t].pc = "persistUpload"
  /\ \E settings \in SettingsChoices :
       tasks' = [tasks EXCEPT ![t] =
         IF Malformed(settings)
         THEN InnerCatch([@ EXCEPT !.malformed = TRUE], "Unexpected token")
         ELSE IF ~HasInstagramToken(settings)
         THEN Return(@, Result(TRUE, SuccessfulUploads(tasks[t].uploadResults),
                               None, None, ""))
         ELSE [@ EXCEPT !.pc = "publish", !.igCalls = @ + 1, !.userToken = TRUE,
                        !.caption = Some(tasks[t].post[1].caption)]]
  /\ UNCHANGED <<store, schedule, now, nextFire, runs, lastInvoke, aside>>

\* variant: publishInstagramPost is called whatever the settings hold
PersistUploadUnchecked(t) ==
  /\ tasks[t].pc = "persistUpload"
  /\ \E written \in DbOutcomes, settings \in SettingsChoices :
       /\ store' = IF written
                   THEN UpdateDraftPost(store, UpdatedPost(tasks[t].post[1], SuccessfulUploads(tasks[t].uploadResults)))
                   ELSE store
       /\ tasks' = [tasks EXCEPT ![t] =
            IF ~written THEN OuterCatch(@, StoreError)
            ELSE [@ EXCEPT !.pc = "publish", !.writes = @ + 1, !.igCalls = @ + 1,
                        !.userToken = HasInstagramToken(settings),
                        !.malformed = Malformed(settings),
                        !.caption = Some(tasks[t].post[1].caption)]]
  /\ UNCHANGED <<schedule, now, nextFire, runs, lastInvoke, aside>>

\* updateDraftPost(updatedPost) rejected: the outer catch; or it resolved:
\* then the settings are read and parsed, the credentials checked and
\* publishInstagramPost called
PersistUpload(t) ==
  /\ tasks[t].pc = "persistUpload"
  /\ \E written \in DbOutcomes, settings \in SettingsChoices :
       /\ store' = IF written
                   THEN UpdateDraftPost(store, UpdatedPost(tasks[t].post[1], SuccessfulUploads(tasks[t].uploadResults)))
                   ELSE store
       /\ tasks' = [tasks EXCEPT ![t] =
            IF ~written THEN OuterCatch(@, StoreError)
            ELSE IF Malformed(settings)
              THEN InnerCatch([@ EXCEPT !.writes = @ + 1, !.malformed = TRUE],
                              "Unexpected token")
              ELSE IF ~HasInstagramToken(settings)
              THEN Return([@ EXCEPT !.writes = @ + 1],
                          Result(TRUE, SuccessfulUploads(tasks[t].uploadResults),
                                 None, None, ""))
              ELSE [@ EXCEPT !.pc = "publish", !.writes = @ + 1, !.igCalls = @ + 1,
                             !.userToken = TRUE,
                             !.caption = Some(tasks[t].post[1].caption)]]
  /\ UNCHANGED <<schedule, now, nextFire, runs, lastInvoke, aside>>

\* variant: an error of publishInstagramPost reaches the outer catch
PublishDoneOuterCatch(t) ==
  /\ tasks[t].pc = "publish"
  /\ \E published \in BOOLEAN :
       IF published
       THEN tasks' = [tasks EXCEPT ![t] =
              [@ EXCEPT !.pc = "persistFinal",
                 !.ig = Some([publishedPostId |-> tasks[t].run,
                              containerId |-> tasks[t].run])]]
       ELSE tasks' = [tasks EXCEPT ![t] = OuterCatch(@, "Instagram API error")]
  /\ UNCHANGED <<store, schedule, now, nextFire, runs, lastInvoke, aside>>

\* publishInstagramPost resolved or threw
PublishDone(t) ==
  /\ tasks[t].pc = "publish"
  /\ \E published \in BOOLEAN :
       IF published
       THEN tasks' = [tasks EXCEPT ![t] =
              [@ EXCEPT !.pc = "persistFinal",
                 !.ig = Some([publishedPostId |-> tasks[t].run,
                              containerId |-> tasks[t].run])]]
       ELSE tasks' = [tasks EXCEPT ![t] = InnerCatch(@, "Instagram API error")]
  /\ UNCHANGED <<store, schedule, now, nextFire, runs, lastInvoke, aside>>

\* updateDraftPost(finalUpdatedPost) resolved, the run returns the
\* identifiers; or it rejected: the inner catch
PersistFinal(t) ==
  /\ tasks[t].pc = "persistFinal"
  /\ \E written \in DbOutcomes :
       /\ store' = IF written
                   THEN UpdateDraftPost(store,
                          FinalUpdatedPost(UpdatedPost(tasks[t].post[1], SuccessfulUploads(tasks[t].uploadResults)), tasks[t].ig[1]))
                   ELSE store
       /\ tasks' = [tasks EXCEPT ![t] =
            IF ~written THEN InnerCatch(@, StoreError)
            ELSE Return([@ EXCEPT !.writes = @ + 1],
                        Result(TRUE, SuccessfulUploads(tasks[t].uploadResults),
                                  Some(tasks[t].ig[1].publishedPostId),
                                  Some(tasks[t].ig[1].containerId), ""))]
  /\ UNCHANGED <<schedule, now, nextFire, runs, lastInvoke, aside>>

\* the result reaches the caller of a manual publish
ReturnDirect(t) ==
  /\ tasks[t].pc = "returned"
  /\ tasks' = [tasks EXCEPT ![t] = IdleTask]
  /\ UNCHANGED <<store, schedule, now, nextFire, runs, lastInvoke, aside>>

\* ------------------------------------------------------------ publishPost
\* updateDraftPost(updatedPost) of publishPost resolved and the check is
\* over; or it rejected: publishPost rethrows, checkInstagramSchedule catches
PersistPublished(t) ==
  /\ tasks[t].pc = "markPublished"
  /\ \E written \in DbOutcomes :
       /\ store' = IF written
                   THEN UpdateDraftPost(store, PublishedPost(tasks[t].post[1], tasks[t].result[1]))
                   ELSE store
       /\ tasks' = [tasks EXCEPT ![t] = IF written THEN IdleTask ELSE Caught(@)]
  /\ UNCHANGED <<schedule, now, nextFire, runs, lastInvoke, aside>>

\* ------------------------------------------------------------------ Next
Next ==
  \/ TimerTick
  \/ TriggerCheck
  \/ Advance
  \/ \E id \in PostIds : DirectPublish(id)
  \/ \E t \in Tasks : GetSchedule(t)
  \/ \E t \in Tasks : ListPublished(t)
  \/ \E t \in Tasks : FindNext(t)
  \/ \E t \in Tasks : LoadImages(t)
  \/ \E t \in Tasks : UploadDone(t)
  \/ \E t \in Tasks : PersistUpload(t)
  \/ \E t \in Tasks : PublishDone(t)
  \/ \E t \in Tasks : PersistFinal(t)
  \/ \E t \in Tasks : ReturnDirect(t)
  \/ \E t \in Tasks : PersistPublished(t)

Spec == Init /\ [][Next]_vars

\* ================================================ the pipeline and the user
\* the check on start runs while the user edits and deletes posts
\* store.delete(id)
DeleteDraftPost(s, id) == [k \in (DOMAIN s) \ {id} |-> s[k]]

\* { ...post, caption: finalCaption, ... } of handleSaveCaption
CaptionSaved(post, finalCaption) == [post EXCEPT !.caption = finalCaption]

\* the scheduler is on, its check on start is in flight
InitUser ==
  /\ store = [k \in PostIds |-> NewPost(k, CreatedAt(k), Some(MaxPosts - k))]
  /\ schedule \in {sc \in ScheduleChoices : ~Paused(sc)}
  /\ now = StartTime
  /\ nextFire = StartTime + TimerPeriod
  /\ tasks = [t \in Tasks |-> IF t = 1 THEN CheckTask(1) ELSE IdleTask]
  /\ runs = 1
  /\ lastInvoke = None
  /\ deleted = {}
  /\ igRun = IgIdle
  /\ batch = BatchIdle
  /\ dbFails = FALSE
  /\ sched = SchedIdle

\* PostDetailModal.handleSaveCaption on the post as the grid shows it: the
\* user saves a caption of their own
SaveCaption(id) ==
  /\ id \in DOMAIN store
  /\ store[id].caption # "edited"
  /\ store' = UpdateDraftPost(store, CaptionSaved(store[id], "edited"))
  /\ UNCHANGED <<schedule, now, nextFire, tasks, runs, lastInvoke, aside>>

\* Settings.handlePostDelete: deleteDraftPost(postId) resolved
DeletePost(id) ==
  /\ id \in DOMAIN store
  /\ store' = DeleteDraftPost(store, id)
  /\ deleted' = deleted \cup {id}
  /\ UNCHANGED <<schedule, now, nextFire, tasks, runs, lastInvoke, igRun, batch, others>>

NextUser ==
  \/ \E id \in PostIds : SaveCaption(id)
  \/ \E id \in PostIds : DeletePost(id)
  \/ \E t \in Tasks : GetSchedule(t)
  \/ \E t \in Tasks : ListPublished(t)
  \/ \E t \in Tasks : FindNext(t)
  \/ \E t \in Tasks : LoadImages(t)
  \/ \E t \in Tasks : UploadDone(t)
  \/ \E t \in Tasks : PersistUpload(t)
  \/ \E t \in Tasks : PublishDone(t)
  \/ \E t \in Tasks : PersistFinal(t)
  \/ \E t \in Tasks : PersistPublished(t)

SpecUser == InitUser /\ [][NextUser]_vars

\* ================================== the scheduler with failing collaborators
\* IndexedDB requests can fail; one of the posts may have lost its images
InitFaults ==
  /\ \E empty \in 0..MaxPosts :
       store = [k \in PostIds |->
                  IF k = empty
                  THEN [NewPost(k, CreatedAt(k), Some(MaxPosts - k)) EXCEPT !.images = <<>>]
                  ELSE NewPost(k, CreatedAt(k), Some(MaxPosts - k))]
  /\ schedule \in {sc \in ScheduleChoices : ~Paused(sc)}
  /\ now = StartTime
  /\ nextFire = StartTime + TimerPeriod
  /\ tasks = [t \in Tasks |-> IF t = 1 THEN CheckTask(1) ELSE IdleTask]
  /\ runs = 1
  /\ lastInvoke = None
  /\ deleted = {}
  /\ igRun = IgIdle
  /\ batch = BatchIdle
  /\ dbFails = TRUE
  /\ sched = SchedIdle

NextFaults ==
  \/ TimerTick
  \/ TriggerCheck
  \/ Advance
  \/ \E t \in Tasks : GetSchedule(t)
  \/ \E t \in Tasks : ListPublished(t)
  \/ \E t \in Tasks : FindNext(t)
  \/ \E t \in Tasks : LoadImages(t)
  \/ \E t \in Tasks : UploadDone(t)
  \/ \E t \in Tasks : PersistUpload(t)
  \/ \E t \in Tasks : PublishDone(t)
  \/ \E t \in Tasks : PersistFinal(t)
  \/ \E t \in Tasks : PersistPublished(t)

SpecFaults == InitFaults /\ [][NextFaults]_vars

\* ================================================== ticks without an end
\* the schedule is active and the clock has passed the interval since every
\* post was created: the pacing guard depends on the stored posts alone
InitLive ==
  /\ \E ps \in [PostIds -> {None, Some(0), Some(1)}] :
       /\ \A k \in PostIds : ps[k] \in PositionChoices(k)
       /\ store = [k \in PostIds |-> NewPost(k, CreatedAt(k), ps[k])]
  /\ schedule \in {sc \in ScheduleChoices : ~Paused(sc)}
  /\ now = StartTime + MaxClockSteps * ClockStep
  /\ nextFire = StartTime + TimerPeriod
  /\ tasks = [t \in Tasks |-> IF t = 1 THEN CheckTask(1) ELSE IdleTask]
  /\ runs = 1
  /\ lastInvoke = None
  /\ deleted = {}
  /\ igRun = IgIdle
  /\ batch = BatchIdle
  /\ dbFails = FALSE
  /\ sched = SchedIdle

\* the setInterval callback, hour after hour, each check being over before
\* the next hour ends: the clock and the count of checks are left out
TickLive ==
  /\ FreeTasks = Tasks
  /\ tasks' = [tasks EXCEPT ![FreeTask] = CheckTask(runs)]
  /\ UNCHANGED <<store, schedule, now, nextFire, runs, lastInvoke, aside>>

\* the next step of call chain t: the promise it awaits settles
TaskStep(t) ==
  \/ GetSchedule(t)
  \/ ListPublished(t)
  \/ FindNext(t)
  \/ LoadImages(t)
  \/ UploadDone(t)
  \/ PersistUpload(t)
  \/ PublishDone(t)
  \/ PersistFinal(t)
  \/ PersistPublished(t)

NextLive ==
  \/ TickLive
  \/ \E t \in Tasks : TaskStep(t)

\* the timer keeps firing and every awaited promise settles
SpecLive ==
  /\ InitLive
  /\ [][NextLive]_vars
  /\ WF_vars(TickLive)
  /\ \A t \in Tasks : WF_vars(TaskStep(t))

\* ================================================ the scheduler object alone
\* the object is constructed; the module then calls start()
InitSched ==
  /\ store = [k \in PostIds |-> NewPost(k, CreatedAt(k), None)]
  /\ schedule = None
  /\ now = StartTime
  /\ nextFire = StartTime + TimerPeriod
  /\ tasks = [t \in Tasks |-> IdleTask]
  /\ runs = 0
  /\ lastInvoke = None
  /\ deleted = {}
  /\ igRun = IgIdle
  /\ batch = BatchIdle
  /\ dbFails = FALSE
  /\ sched = SchedIdle

\* variant: start() without the isRunning guard
StartUnguarded ==
  /\ Len(sched.calls) < MaxCalls
  /\ sched' = [sched EXCEPT !.isRunning = TRUE,
                            !.checks = @ + 1,
                            !.intervalId = Some(sched.nextTimer),
                            !.timers = @ \cup {sched.nextTimer},
                            !.nextTimer = @ + 1,
                            !.calls = Append(@, "start")]
  /\ UNCHANGED <<pipeline, deleted, igRun, batch, dbFails>>

\* start(): nothing when running; else isRunning = true, one call of
\* checkAndPublishPosts, intervalId = setInterval(...)
Start ==
  /\ Len(sched.calls) < MaxCalls
  /\ sched' = IF sched.isRunning
              THEN [sched EXCEPT !.calls = Append(@, "start")]
              ELSE [sched EXCEPT !.isRunning = TRUE,
                                 !.checks = @ + 1,
                                 !.intervalId = Some(sched.nextTimer),
                                 !.timers = @ \cup {sched.nextTimer},
                                 !.nextTimer = @ + 1,
                                 !.calls = Append(@, "start")]
  /\ UNCHANGED <<pipeline, deleted, igRun, batch, dbFails>>

\* stop(): clearInterval(intervalId) when it is set, intervalId = null,
\* isRunning = false
Stop ==
  /\ Len(sched.calls) < MaxCalls
  /\ sched' = [sched EXCEPT !.timers = IF Truthy(sched.intervalId)
                                       THEN @ \ {sched.intervalId[1]} ELSE @,
                            !.intervalId = None,
                            !.isRunning = FALSE,
                            !.calls = Append(@, "stop")]
  /\ UNCHANGED <<pipeline, deleted, igRun, batch, dbFails>>

\* the callback of an interval that is set and not cleared
IntervalFires(id) ==
  /\ id \in sched.timers
  /\ sched.fired < MaxTicks
  /\ sched' = [sched EXCEPT !.checks = @ + 1, !.fired = @ + 1]
  /\ UNCHANGED <<pipeline, deleted, igRun, batch, dbFails>>

NextSched ==
  \/ Start
  \/ Stop
  \/ \E id \in 1..MaxCalls : IntervalFires(id)

SpecSched == InitSched /\ [][NextSched]_vars

\* ============================================== the publish protocol alone
\* nothing of the pipeline runs: one call of publishInstagramPost
InitIg ==
  /\ store = [k \in PostIds |-> NewPost(k, CreatedAt(k), None)]
  /\ schedule = None
  /\ now = StartTime
  /\ nextFire = StartTime + TimerPeriod
  /\ tasks = [t \in Tasks |-> IdleTask]
  /\ runs = 0
  /\ lastInvoke = None
  /\ deleted = {}
  /\ igRun = IgIdle
  /\ batch = BatchIdle
  /\ dbFails = FALSE
  /\ sched = SchedIdle

\* publishInstagramPost(config, imageUrls, caption) up to the first fetch of
\* getPageInfo
IgCall ==
  /\ igRun.pc = "idle"
  /\ \E imageUrls \in UrlLists(MaxImages) :
       igRun' = Send([IgIdle EXCEPT !.imageUrls = imageUrls, !.caption = "caption"],
                     "pages", Request("pages", None, None, None, None))
  /\ UNCHANGED <<pipeline, deleted, batch, others>>

\* /me/accounts answered
IgPagesResponse ==
  /\ igRun.pc = "pages"
  /\ \/ \E f \in Failures : igRun' = Throw(igRun, "pages", IgError("pages", 0, f))
     \/ igRun' = Throw(igRun, "pages", NoPagesError)
     \/ \E pageId \in RemoteIds :
          igRun' = Send(Answered(igRun, pageId), "account",
                        Request("account", None, None, None, None))
  /\ UNCHANGED <<pipeline, deleted, batch, others>>

\* the first request of step 3, sent once getPageInfo has returned
FirstContainerRequest(g) ==
  IF IsSingleImage(g.imageUrls)
  THEN Send(g, "single", Request("single", Some(g.imageUrls[1]), None, Some(g.caption), None))
  ELSE Send(g, "child", Request("child", Some(g.imageUrls[1]), None, None, None))

\* /{pageId}?fields=instagram_business_account answered
IgAccountResponse ==
  /\ igRun.pc = "account"
  /\ \/ \E f \in Failures : igRun' = Throw(igRun, "account", IgError("account", 0, f))
     \/ igRun' = Throw(igRun, "account", NoAccountError)
     \/ \E userId \in RemoteIds :
          igRun' = FirstContainerRequest(
                     [Answered(igRun, userId) EXCEPT !.instagramUserId = Some(userId)])
  /\ UNCHANGED <<pipeline, deleted, batch, others>>

\* the publish request for a container
PublishRequest(g, id) ==
  Send([g EXCEPT !.container = Some(id)], "publish",
       Request("publish", None, None, None, Some(id)))

\* createSingleImageContainer: /media answered
IgSingleResponse ==
  /\ igRun.pc = "single"
  /\ \/ \E f \in Failures : igRun' = Throw(igRun, "single", IgError("single", 0, f))
     \/ \E id \in RemoteIds : igRun' = PublishRequest(Answered(igRun, id), id)
  /\ UNCHANGED <<pipeline, deleted, batch, others>>

\* the loop of createCarouselItemContainers goes on, or the function returns
\* and createCarouselContainer sends the parent request
NextCarouselRequest(g) ==
  IF Len(g.containerIds) < Len(g.imageUrls)
  THEN Send(g, "child",
            Request("child", Some(g.imageUrls[Len(g.containerIds) + 1]), None, None, None))
  ELSE Send(g, "parent",
            Request("parent", None, Some(Join(g.containerIds)), Some(g.caption), None))

\* variant: the answer is not looked at: after a failure the loop pushes
\* data.id (undefined) and goes on
IgChildResponseUnchecked ==
  /\ igRun.pc = "child"
  /\ \/ \E f \in Failures :
          igRun' = NextCarouselRequest(
                     [igRun EXCEPT !.failed = Some("child"),
                                   !.error = Some(IgError("child", Len(igRun.containerIds) + 1, f)),
                                   !.containerIds = Push(@, "undefined")])
     \/ \E id \in RemoteIds :
          igRun' = NextCarouselRequest(
                     [Answered(igRun, id) EXCEPT !.containerIds = Push(@, id)])
  /\ UNCHANGED <<pipeline, deleted, batch, others>>

\* createCarouselItemContainers: /media answered for one image
IgChildResponse ==
  /\ igRun.pc = "child"
  /\ \/ \E f \in Failures :
          igRun' = Throw(igRun, "child", IgError("child", Len(igRun.containerIds) + 1, f))
     \/ \E id \in RemoteIds :
          igRun' = NextCarouselRequest(
                     [Answered(igRun, id) EXCEPT !.containerIds = Push(@, id)])
  /\ UNCHANGED <<pipeline, deleted, batch, others>>

\* createCarouselContainer: /media answered
IgParentResponse ==
  /\ igRun.pc = "parent"
  /\ \/ \E f \in Failures : igRun' = Throw(igRun, "parent", IgError("parent", 0, f))
     \/ \E id \in RemoteIds : igRun' = PublishRequest(Answered(igRun, id), id)
  /\ UNCHANGED <<pipeline, deleted, batch, others>>

\* variant: a failed publish request is sent once more
IgPublishResponseRetry ==
  /\ igRun.pc = "publish"
  /\ \/ \E f \in Failures :
          igRun' = IF Len(igRun.requests) < 2 * MaxImages + 6
                   THEN PublishRequest(igRun, igRun.container[1])
                   ELSE Throw(igRun, "publish", IgError("publish", 0, f))
     \/ \E id \in RemoteIds :
          igRun' = [Answered(igRun, id) EXCEPT
                      !.pc = "done",
                      !.result = Some([containerId |-> igRun.container[1],
                                       publishedPostId |-> id])]
  /\ UNCHANGED <<pipeline, deleted, batch, others>>

\* publishMediaContainer: /media_publish answered
IgPublishResponse ==
  /\ igRun.pc = "publish"
  /\ \/ \E f \in Failures : igRun' = Throw(igRun, "publish", IgError("publish", 0, f))
     \/ \E id \in RemoteIds :
          igRun' = [Answered(igRun, id) EXCEPT
                      !.pc = "done",
                      !.result = Some([containerId |-> igRun.container[1],
                                       publishedPostId |-> id])]
  /\ UNCHANGED <<pipeline, deleted, batch, others>>

NextIg ==
  \/ IgCall
  \/ IgPagesResponse
  \/ IgAccountResponse
  \/ IgSingleResponse
  \/ IgChildResponse
  \/ IgParentResponse
  \/ IgPublishResponse

SpecIg == InitIg /\ [][NextIg]_vars

\* ================================================ the batch upload alone
InitBatch ==
  /\ store = [k \in PostIds |-> NewPost(k, CreatedAt(k), None)]
  /\ schedule = None
  /\ now = StartTime
  /\ nextFire = StartTime + TimerPeriod
  /\ tasks = [t \in Tasks |-> IdleTask]
  /\ runs = 0
  /\ lastInvoke = None
  /\ deleted = {}
  /\ igRun = IgIdle
  /\ batch = BatchIdle
  /\ dbFails = FALSE
  /\ sched = SchedIdle

\* files.map(file => uploadImageToCloudinary(file, ...)): every call runs up
\* to its fetch, then Promise.all waits
UploadMultiple ==
  /\ batch.pc = "idle"
  /\ \E files \in FileLists(MaxImages) :
       batch' = [BatchIdle EXCEPT !.pc = "pending", !.files = files,
                                  !.answers = [i \in DOMAIN files |-> None],
                                  !.settled = [i \in DOMAIN files |-> None]]
  /\ UNCHANGED <<pipeline, deleted, igRun, others>>

\* the promise of file i settles, whatever the others have done
UploadSettled(i) ==
  /\ batch.pc = "pending"
  /\ i \in DOMAIN batch.files
  /\ ~IsSet(batch.settled[i])
  /\ \E a \in Answers :
       batch' = [batch EXCEPT
                   !.answers[i] = Some(a),
                   !.settled[i] = Some(UploadImageToCloudinary(batch.files[i], a)),
                   !.order = Append(@, i)]
  /\ UNCHANGED <<pipeline, deleted, igRun, others>>

\* Promise.all resolves with the values in the order of the promises
PromiseAll ==
  /\ batch.pc = "pending"
  /\ \A i \in DOMAIN batch.files : IsSet(batch.settled[i])
  /\ batch' = [batch EXCEPT
                 !.pc = "resolved",
                 !.returned = Some([i \in DOMAIN batch.files |-> batch.settled[i][1]])]
  /\ UNCHANGED <<pipeline, deleted, igRun, others>>

NextBatch ==
  \/ UploadMultiple
  \/ \E i \in 1..MaxImages : UploadSettled(i)
  \/ PromiseAll

SpecBatch == InitBatch /\ [][NextBatch]_vars

\* ================================================================ claims
\* the step of call chain t in which findNextPostToPublish resolves with a
\* post and publishPost hands it to the orchestrator
Invokes(t) == tasks[t].pc = "findNext" /\ IsSet(tasks'[t].post)

\* C1: every stored post whose instagramPostId is set has a non-empty
\* cloudinaryImages list, whatever the interleaving of ticks and orchestrator
\* calls.
C1_UploadBeforePublish ==
  \A k \in DOMAIN store :
    IsSet(store[k].instagramPostId) => Len(store[k].cloudinaryImages) > 0

\* C6: two scheduler-initiated orchestrator invocations are never less than
\* hoursBetweenPosts apart in wall-clock time.
C6_OnePostPerInterval ==
  [][\A t \in Tasks :
       (Invokes(t) /\ IsSet(lastInvoke))
         => now - lastInvoke[1] >= tasks[t].hours * MsPerHour]_vars

\* C7: when the orchestrator invoked by a tick reports success=false, the
\* scheduler leaves the stored post unchanged and the tick ends without a
\* second orchestrator call.
C7_FailureLeavesPostAsIs ==
  [][\A t \in Tasks :
       (tasks[t].pc = "markPublished" /\ tasks'[t] # tasks[t])
         => IF tasks[t].result[1].success THEN TRUE
            ELSE store' = store /\ tasks'[t] = IdleTask]_vars

\* C8: a stored Instagram post with status 'published' has instagramPostId
\* set (it is marked published only when upload and publish both succeeded).
C8_PublishedOnlyWhenLive ==
  \A k \in DOMAIN store :
    (store[k].platform = "instagram" /\ store[k].status = "published")
      => IsSet(store[k].instagramPostId)

\* C9: a post handed to the orchestrator by a tick never has an
\* instagramPostId already.
C9_NeverSelectsLivePost ==
  [][\A t \in Tasks :
       Invokes(t) => ~IsSet(tasks'[t].post[1].instagramPostId)]_vars

\* C2: a run of the orchestrator in which at least one upload of the batch
\* returned an error has ended with success=false and a message, has written
\* nothing to the store (the step that receives the batch leaves the store as
\* it was) and has not called the publish client.
C2_PartialFailureContained ==
  [][\A t \in Tasks :
       Len(Errors(tasks'[t].uploadResults)) > 0
         => /\ IsSet(tasks'[t].result)
            /\ ~tasks'[t].result[1].success
            /\ tasks'[t].result[1].error # ""
            /\ tasks'[t].result[1].cloudinaryImages = <<>>
            /\ tasks'[t].writes = 0
            /\ tasks'[t].igCalls = 0
            /\ (tasks[t].pc = "upload" => store' = store)]_vars

\* a batch of two with one upload and one error was contained, while the
\* stored record still carries the cloudinaryImages of an earlier attempt
C2_Witness ==
  \E t \in Tasks :
    /\ IsSet(tasks[t].result)
    /\ Len(Errors(tasks[t].uploadResults)) = 1
    /\ Len(SuccessfulUploads(tasks[t].uploadResults)) = 1
    /\ Len(tasks[t].post[1].cloudinaryImages) > 0
    /\ store[tasks[t].post[1].id] = tasks[t].post[1]

\* C3: the step in which a run calls publishInstagramPost is taken only with
\* one successful upload per image of the post and no error, and when it is
\* taken the store holds the run's cloudinaryImages on the post.
C3_PersistBeforePublish ==
  [][\A t \in Tasks :
       tasks'[t].igCalls > tasks[t].igCalls
         => /\ Len(Errors(tasks'[t].uploadResults)) = 0
            /\ Len(tasks'[t].uploadResults) = Len(tasks'[t].post[1].images)
            /\ tasks'[t].writes = 1
            /\ store'[tasks'[t].post[1].id].cloudinaryImages = tasks'[t].uploadResults
            /\ store'[tasks'[t].post[1].id].status = "new"]_vars

\* a run with two uploads waits for the publish client, its uploads stored
C3_Witness ==
  \E t \in Tasks :
    /\ tasks[t].pc = "publish"
    /\ tasks[t].igCalls = 1
    /\ Len(tasks[t].uploadResults) = 2
    /\ store[tasks[t].post[1].id].cloudinaryImages = tasks[t].uploadResults

\* C4: when the publish client fails after a successful upload, the run
\* returns success=true with a non-empty error, its cloudinaryImages and no
\* Instagram identifiers, and writes nothing: the store stays as the write of
\* the upload step left it (the only write of the run).
C4_PublishFailureContained ==
  [][\A t \in Tasks :
       (tasks[t].pc = "publish" /\ tasks'[t] # tasks[t] /\ ~IsSet(tasks'[t].ig))
         => /\ IsSet(tasks'[t].result)
            /\ tasks'[t].result[1].success
            /\ tasks'[t].result[1].error # ""
            /\ tasks'[t].result[1].cloudinaryImages = tasks[t].uploadResults
            /\ ~IsSet(tasks'[t].result[1].instagramPostId)
            /\ ~IsSet(tasks'[t].result[1].instagramContainerId)
            /\ tasks'[t].writes = 1
            /\ store' = store]_vars

\* a run returned after a failed publish and the stored record is the record
\* of the upload step: cloudinaryImages set, status 'new', no identifiers
C4_Witness ==
  \E t \in Tasks :
    /\ IsSet(tasks[t].result)
    /\ tasks[t].igCalls = 1
    /\ tasks[t].result[1].error # ""
    /\ store[tasks[t].post[1].id] =
         [tasks[t].post[1] EXCEPT !.cloudinaryImages = tasks[t].uploadResults,
                                  !.status = "new"]
    /\ ~IsSet(store[tasks[t].post[1].id].instagramPostId)

\* C5: a check whose elapsed time since the last published post (the
\* greatest createdAt among the Instagram posts that are live, that is, have
\* an instagramPostId) is below hoursBetweenPosts ends without an orchestrator
\* call; otherwise it goes on to select, and then calls the orchestrator once,
\* on an Instagram post that is not live and has the greatest position (-1
\* without one), or ends without a call when no such post exists.
C5_PacingPerTick ==
  [][\A t \in Tasks :
       LET live == {k \in DOMAIN store : /\ store[k].platform = "instagram"
                                         /\ IsSet(store[k].instagramPostId)}
           waiting == {k \in DOMAIN store : /\ store[k].platform = "instagram"
                                            /\ ~IsSet(store[k].instagramPostId)}
           ready == \A k \in live :
                      now - store[k].createdAt >= tasks[t].hours * MsPerHour
       IN /\ (tasks[t].pc = "listPublished" /\ tasks'[t] # tasks[t])
               => IF ready THEN tasks'[t].pc = "findNext"
                  ELSE tasks'[t] = IdleTask /\ lastInvoke' = lastInvoke
          /\ (tasks[t].pc = "findNext" /\ tasks'[t] # tasks[t])
               => IF waiting = {} THEN tasks'[t] = IdleTask /\ lastInvoke' = lastInvoke
                  ELSE /\ IsSet(tasks'[t].post)
                       /\ tasks'[t].post[1].id \in waiting
                       /\ \A k \in waiting : Pos(store[k]) <= Pos(tasks'[t].post[1])]_vars

\* C10: a check that reads no schedule record, or a record with isActive
\* false, ends at once: no orchestrator call, no write to the store.
C10_PauseStopsPublishing ==
  [][\A t \in Tasks :
       (/\ tasks[t].pc = "getSchedule"
        /\ tasks'[t] # tasks[t]
        /\ IF IsSet(schedule) THEN ~schedule[1].isActive ELSE TRUE)
         => /\ tasks'[t] = IdleTask
            /\ store' = store
            /\ lastInvoke' = lastInvoke]_vars

\* the check on start read a paused schedule and is over; the posts are as
\* they were and the orchestrator was not called
C10_Witness ==
  /\ IsSet(schedule)
  /\ ~schedule[1].isActive
  /\ \A t \in Tasks : tasks[t] = IdleTask
  /\ \A k \in DOMAIN store :
       store[k].status = "new" /\ store[k].cloudinaryImages = <<>>
  /\ lastInvoke = None

\* C11: a run that finds no Cloudinary configuration has returned
\* success=false with 'Cloudinary configuration not found', has loaded and
\* uploaded nothing, has not called Instagram and has written nothing; the
\* step that starts it leaves the store as it was.
C11_MissingConfigFailsFast ==
  [][\A t \in Tasks :
       (IsSet(tasks'[t].post) /\ ~tasks'[t].config)
         => /\ IsSet(tasks'[t].result)
            /\ ~tasks'[t].result[1].success
            /\ tasks'[t].result[1].error = "Cloudinary configuration not found"
            /\ tasks'[t].pc \in {"returned", "markPublished"}
            /\ tasks'[t].uploadResults = <<>>
            /\ tasks'[t].writes = 0
            /\ tasks'[t].igCalls = 0
            /\ (~IsSet(tasks[t].post) => store' = store)]_vars

\* a direct run returned for want of a configuration; its post is untouched
C11_Witness ==
  \E t \in Tasks :
    /\ tasks[t].kind = "direct"
    /\ IsSet(tasks[t].result)
    /\ ~tasks[t].config
    /\ store[tasks[t].post[1].id] = tasks[t].post[1]

\* C12: when the uploads are stored and the settings are absent or parse to
\* an object without instagramUserToken, the run returns success=true with its cloudinaryImages,
\* no error and no identifiers, the stored record carries the
\* cloudinaryImages, and the publish client was not called.
C12_SoftStopWithoutToken ==
  [][\A t \in Tasks :
       (/\ tasks[t].pc = "persistUpload"
        /\ tasks'[t].writes > tasks[t].writes
        /\ ~tasks'[t].malformed
        /\ ~tasks'[t].userToken)
         => /\ IsSet(tasks'[t].result)
            /\ tasks'[t].result[1].success
            /\ tasks'[t].result[1].error = ""
            /\ tasks'[t].result[1].cloudinaryImages = tasks[t].uploadResults
            /\ ~IsSet(tasks'[t].result[1].instagramPostId)
            /\ tasks'[t].igCalls = 0
            /\ store'[tasks[t].post[1].id].cloudinaryImages = tasks[t].uploadResults
            /\ ~IsSet(tasks'[t].caption)]_vars

\* a run stopped after the upload: result without error, nothing published
C12_Witness ==
  \E t \in Tasks :
    /\ IsSet(tasks[t].result)
    /\ tasks[t].writes = 1
    /\ tasks[t].igCalls = 0
    /\ tasks[t].result[1].success
    /\ tasks[t].result[1].error = ""
    /\ store[tasks[t].post[1].id].cloudinaryImages = tasks[t].uploadResults
    /\ ~IsSet(store[tasks[t].post[1].id].instagramPostId)

\* C13: a run on a post that carries cloudinaryImages and no instagramPostId,
\* whose publish succeeds, leaves a stored record with instagramPostId set and
\* with exactly the uploads of this run as cloudinaryImages, one per image.
C13_RetryOverwritesUploads ==
  [][\A t \in Tasks :
       (/\ tasks[t].pc = "persistFinal"
        /\ tasks'[t].writes > tasks[t].writes
        /\ Len(tasks[t].post[1].cloudinaryImages) > 0
        /\ ~IsSet(tasks[t].post[1].instagramPostId))
         => LET stored == store'[tasks[t].post[1].id]
            IN /\ IsSet(stored.instagramPostId)
               /\ stored.cloudinaryImages = tasks[t].uploadResults
               /\ Len(stored.cloudinaryImages) = Len(tasks[t].post[1].images)
               /\ \A i \in DOMAIN stored.cloudinaryImages :
                    stored.cloudinaryImages[i].secureUrl = <<tasks[t].run, i>>]_vars

\* the second run on a post returned its identifiers; the record holds the
\* second run's uploads in place of the first run's
C13_Witness ==
  \E t \in Tasks :
    /\ IsSet(tasks[t].result)
    /\ IsSet(tasks[t].result[1].instagramPostId)
    /\ Len(tasks[t].post[1].cloudinaryImages) = Len(tasks[t].post[1].images)
    /\ tasks[t].post[1].cloudinaryImages # tasks[t].uploadResults
    /\ store[tasks[t].post[1].id].cloudinaryImages = tasks[t].uploadResults
    /\ IsSet(store[tasks[t].post[1].id].instagramPostId)

\* C14: the children parameter of the parent container request is the
\* comma-joined list of the ids answered to the child requests, child i being
\* the request for image i, and the child requests go out one after the
\* other in the order of the image list.
C14_CarouselOrdering ==
  LET IsChild(r) == r.what = "child"
      sent == igRun.requests
      n == Len(igRun.imageUrls)
  IN /\ \A j \in DOMAIN sent :
          IsChild(sent[j]) =>
            LET i == Len(SelectSeq(SubSeq(sent, 1, j), IsChild))
            IN /\ i <= n
               /\ sent[j].image_url = Some(igRun.imageUrls[i])
               /\ j < Len(sent) => IsSet(sent[j].reply)
     /\ \A j \in DOMAIN sent :
          sent[j].what = "parent" =>
            LET childs == SelectSeq(SubSeq(sent, 1, j), IsChild)
                children == sent[j].children[1]
            IN /\ Len(childs) = n
               /\ Len(children) = 2 * n - 1
               /\ \A i \in 1..n : children[2 * i - 1] = childs[i].reply[1]
               /\ \A i \in 1..(n - 1) : children[2 * i] = ","

\* a parent request for two images whose child containers got different ids
C14_Witness ==
  /\ Len(igRun.imageUrls) = 2
  /\ igRun.pc = "parent"
  /\ igRun.containerIds[1] # igRun.containerIds[2]
  /\ igRun.imageUrls[1] = <<"url", 2>>

\* C15: a call with one image URL sends no carousel-item and no CAROUSEL
\* request; a call with two or more sends no single-image request, sends the
\* parent request only after one child request per image, and has sent both
\* kinds when it returns.
C15_SingleOrCarousel ==
  LET sent == igRun.requests
      n == Len(igRun.imageUrls)
      Count(what) == Cardinality({j \in DOMAIN sent : sent[j].what = what})
  IN /\ n = 1 => Count("child") = 0 /\ Count("parent") = 0
     /\ n >= 2 => /\ Count("single") = 0
                  /\ Count("parent") <= 1
                  /\ Count("parent") = 1 => Count("child") = n
                  /\ IsSet(igRun.container) => Count("parent") = 1
                  /\ IsSet(igRun.result) => Count("parent") = 1
     /\ (n = 1 /\ IsSet(igRun.result)) => Count("single") = 1

\* a carousel call returned
C15_Witness ==
  /\ Len(igRun.imageUrls) >= 2
  /\ igRun.pc = "done"
  /\ IsSet(igRun.result)

\* C16: the requests of a call go out in the order pages, account,
\* container(s), publish, each once; a request goes out only when all
\* requests before it were answered with success; the call returns ids only
\* after the whole sequence.
C16_FourStepsInSequence ==
  LET sent == igRun.requests
      n == Len(igRun.imageUrls)
      expected == <<"pages", "account">>
                    \o (IF n = 1 THEN <<"single">>
                        ELSE [i \in 1..n |-> "child"] \o <<"parent">>)
                    \o <<"publish">>
  IN /\ Len(sent) <= Len(expected)
     /\ \A j \in DOMAIN sent : sent[j].what = expected[j]
     /\ \A j \in DOMAIN sent : j < Len(sent) => IsSet(sent[j].reply)
     /\ \A j \in DOMAIN sent : \A k \in DOMAIN sent :
          j < k => StepOf(sent[j].what) <= StepOf(sent[k].what)
     /\ IsSet(igRun.result) =>
          /\ Len(sent) = Len(expected)
          /\ \A j \in DOMAIN sent : IsSet(sent[j].reply)
          /\ ~IsSet(igRun.error)
     /\ IsSet(igRun.error) => igRun.pc = "failed" /\ ~IsSet(igRun.result)

\* a single-image call returned after its four requests
C16_Witness ==
  /\ Len(igRun.imageUrls) = 1
  /\ igRun.pc = "done"
  /\ Len(igRun.requests) = 4

\* C17: the error a call raises tells which step failed: no request of
\* another step can raise the same error value, and the errors for a
\* rejected token, no page and no linked account differ from each other.
C17_ErrorTellsStep ==
  IsSet(igRun.error) =>
    /\ \A what \in {"pages", "account", "single", "child", "parent", "publish"} :
         \A i \in 0..MaxImages : \A f \in Failures :
           IgError(what, i, f) = igRun.error[1]
             => StepOf(what) = StepOf(igRun.failed[1])
    /\ NoPagesError # NoAccountError

\* C18: a batch of N files resolves, whatever the order in which the uploads
\* settle, with N results; result i is the upload record of file i when its
\* upload went through, and an error value when it failed (network error,
\* status that is not ok, malformed answer), whatever the other files did.
C18_BatchIndependence ==
  (batch.pc = "resolved") =>
    LET returned == batch.returned[1]
    IN /\ Len(returned) = Len(batch.files)
       /\ \A i \in DOMAIN batch.files :
            IF IsFailure(batch.answers[i][1])
            THEN IsError(returned[i])
            ELSE /\ ~IsError(returned[i])
                 /\ returned[i].secureUrl = Some(<<"https", batch.files[i]>>)

\* C19: the caption a run sends to Instagram is the caption the stored record
\* carries when the publish step starts, and no write of the run changes the
\* caption the stored record carries.
C19_CurrentCaptionPublished ==
  [][\A t \in Tasks :
       (tasks[t].pc \in {"persistUpload", "persistFinal"} /\ tasks'[t] # tasks[t])
         => LET id == tasks[t].post[1].id
            IN id \in DOMAIN store
                 => /\ store'[id].caption = store[id].caption
                    /\ IsSet(tasks'[t].caption)
                         => tasks'[t].caption = Some(store[id].caption)]_vars

\* C20: the ids in the store are the ids the user created less the ids the
\* user deleted: no write of the pipeline adds or removes a record.
C20_PipelineKeepsPostSet ==
  DOMAIN store = PostIds \ deleted

\* C21: while a run is between its two writes (the uploads are stored, the
\* identifiers are not yet), the stored record carries the run's
\* cloudinaryImages and neither instagramPostId nor instagramContainerId.
C21_CrashBetweenPersists ==
  \A t \in Tasks :
    (tasks[t].pc \in {"publish", "persistFinal"}
       /\ tasks[t].post[1].id \in DOMAIN store)
      => LET stored == store[tasks[t].post[1].id]
         IN /\ stored.cloudinaryImages = tasks[t].uploadResults
            /\ Len(stored.cloudinaryImages) > 0
            /\ ~IsSet(stored.instagramPostId)
            /\ ~IsSet(stored.instagramContainerId)

\* C22: a run never ends by throwing: as long as it has not returned it is at
\* one of its awaits, and what it returns carries a boolean success and,
\* with success=false, a non-empty error string.
C22_OrchestratorNeverThrows ==
  \A t \in Tasks :
    IsSet(tasks[t].post)
      => IF IsSet(tasks[t].result)
         THEN /\ tasks[t].pc \in {"returned", "markPublished"}
              /\ tasks[t].result[1].success \in BOOLEAN
              /\ ~tasks[t].result[1].success => tasks[t].result[1].error # ""
         ELSE tasks[t].pc \in {"loadImages", "upload", "persistUpload",
                               "publish", "persistFinal"}

\* the write of the uploads was rejected and the run returned success=false
\* with the message of the rejection; the stored record is as it was
C22_Witness ==
  \E t \in Tasks :
    /\ IsSet(tasks[t].result)
    /\ ~tasks[t].result[1].success
    /\ tasks[t].result[1].error = StoreError
    /\ Len(tasks[t].uploadResults) > 0
    /\ store[tasks[t].post[1].id] = tasks[t].post[1]

\* C25: a run one of whose images does not load has returned success=false
\* with an error naming that image, has uploaded nothing, has not called
\* Instagram and has written nothing, and the step in which it returns leaves
\* the store as it was; a run on a post without images has returned
\* success=false with an error and has uploaded nothing.
C25_LoadFailureAborts ==
  [][\A t \in Tasks :
       /\ tasks'[t].missing # 0
            => /\ IsSet(tasks'[t].result)
               /\ ~tasks'[t].result[1].success
               /\ tasks'[t].result[1].error =
                    "Failed to load image "
                      \o ToString(tasks'[t].post[1].images[tasks'[t].missing])
               /\ tasks'[t].uploadResults = <<>>
               /\ tasks'[t].writes = 0
               /\ tasks'[t].igCalls = 0
               /\ (tasks[t].missing = 0 => store' = store)
       /\ (IsSet(tasks'[t].post) /\ Len(tasks'[t].post[1].images) = 0)
            => /\ IsSet(tasks'[t].result)
               /\ ~tasks'[t].result[1].success
               /\ tasks'[t].result[1].error # ""
               /\ tasks'[t].uploadResults = <<>>
               /\ tasks'[t].writes = 0
               /\ tasks'[t].igCalls = 0
               /\ (~IsSet(tasks[t].post) => store' = store)]_vars

\* the second image of a post did not load: the run returned naming it, with
\* nothing uploaded and the stored record as it was
C25_Witness ==
  \E t \in Tasks :
    /\ tasks[t].missing = 2
    /\ IsSet(tasks[t].result)
    /\ tasks[t].uploadResults = <<>>
    /\ store[tasks[t].post[1].id] = tasks[t].post[1]

\* C27: a check that ends, whatever was thrown in it, ends resolved: its call
\* chain is gone, nothing is left rejected, and the interval timer is as it
\* was.
C27_TickFailureContained ==
  [][\A t \in Tasks :
       (tasks[t].kind = "check" /\ tasks'[t].kind # "check")
         => /\ tasks'[t] = IdleTask
            /\ nextFire' = nextFire
            /\ runs' = runs]_vars

\* the check on start called the orchestrator and its final write was
\* rejected (no post is marked published); the timer then fired and the next
\* check is under way
C27_Witness ==
  /\ runs = 2
  /\ lastInvoke = Some(StartTime)
  /\ nextFire = StartTime + 2 * TimerPeriod
  /\ tasks[1].kind = "check"
  /\ tasks[1].run = 2
  /\ tasks[2] = IdleTask
  /\ \A k \in DOMAIN store : store[k].status # "published"

\* C23: the lastPublishedTime a check computes from the listing is the
\* greatest createdAt among the Instagram posts whose instagramPostId is set,
\* and 0 when there is none.
C23_LastPublishedFromLivePosts ==
  \A t \in Tasks :
    tasks[t].pc = "listPublished"
      => LET live == {k \in DOMAIN store : /\ store[k].platform = "instagram"
                                           /\ IsSet(store[k].instagramPostId)}
         IN LastPublishedTime(store) =
              IF live = {} THEN 0
              ELSE CHOOSE m \in {store[k].createdAt : k \in live} :
                     \A k \in live : store[k].createdAt <= m

\* C24: when the request for child k has failed, the call has failed with
\* exactly k child requests sent, the last of them unanswered, and neither a
\* parent nor a publish request; a parent request is sent only when every
\* image has its child request answered with an id.
C24_ChildFailureAborts ==
  LET sent == igRun.requests
      n == Len(igRun.imageUrls)
      Count(what) == Cardinality({j \in DOMAIN sent : sent[j].what = what})
  IN /\ igRun.failed = Some("child")
          => /\ igRun.pc = "failed"
             /\ ~IsSet(igRun.result)
             /\ Count("child") = Len(igRun.containerIds) + 1
             /\ Count("child") <= n
             /\ sent[Len(sent)].what = "child"
             /\ ~IsSet(sent[Len(sent)].reply)
             /\ Count("parent") = 0
             /\ Count("publish") = 0
     /\ Count("parent") > 0
          => /\ Len(igRun.containerIds) = n
             /\ Cardinality({j \in DOMAIN sent :
                               sent[j].what = "child" /\ IsSet(sent[j].reply)}) = n
             /\ \A i \in 1..n : igRun.containerIds[i] \in RemoteIds

\* the first of two children was created, the second failed: the call
\* failed after four requests
C24_Witness ==
  /\ Len(igRun.imageUrls) = 2
  /\ igRun.failed = Some("child")
  /\ Len(igRun.containerIds) = 1
  /\ Len(igRun.requests) = 4

\* C26: at most one interval is set at any time and it is the one intervalId
\* holds; getStatus() reports isRunning exactly when it reports hasInterval;
\* a start() on a running scheduler sets no interval and calls no check; a
\* start() on a stopped one calls exactly one check and sets one interval.
C26_StartStopStateMachine ==
  [][/\ Cardinality(sched'.timers) <= 1
     /\ sched'.timers = IF IsSet(sched'.intervalId) THEN {sched'.intervalId[1]} ELSE {}
     /\ GetStatus(sched').isRunning = GetStatus(sched').hasInterval
     /\ (Len(sched'.calls) > Len(sched.calls)
           /\ sched'.calls[Len(sched'.calls)] = "start")
          => IF sched.isRunning
             THEN /\ sched'.timers = sched.timers
                  /\ sched'.checks = sched.checks
                  /\ sched'.isRunning
             ELSE /\ sched'.isRunning
                  /\ sched'.checks = sched.checks + 1
                  /\ Cardinality(sched'.timers) = 1
     /\ (~sched.isRunning /\ sched'.isRunning)
          => sched'.checks = sched.checks + 1]_vars

\* start() was called twice in a row and then stop(): one check ran, no
\* interval is left
C26_Witness ==
  /\ sched.calls = <<"start", "start", "stop">>
  /\ sched.checks = 1
  /\ sched.timers = {}
  /\ ~GetStatus(sched).isRunning

\* C28: at most one orchestrator run started by a check of the scheduler is
\* in flight at any time.
C28_ChecksDoNotOverlap ==
  Cardinality({t \in Tasks : /\ tasks[t].kind = "check"
                             /\ IsSet(tasks[t].post)
                             /\ ~IsSet(tasks[t].result)}) <= 1

\* C29: no step takes the instagramPostId away from a stored post that has
\* one.
C29_PublishIdStable ==
  [][\A k \in (DOMAIN store) \cap (DOMAIN store') :
       IsSet(store[k].instagramPostId) => IsSet(store'[k].instagramPostId)]_vars

\* a run returns without an instagramPostId
FailedRun ==
  \E t \in Tasks :
    /\ ~IsSet(tasks[t].result)
    /\ IsSet(tasks'[t].result)
    /\ ~IsSet(tasks'[t].result[1].instagramPostId)

\* C30: with the schedule active, the timer firing for ever and, from some
\* point on, no run returning without an instagramPostId, every post
\* eventually has an instagramPostId in the store.
C30_EventualPublication ==
  (<>[][~FailedRun]_vars) => (\A k \in PostIds : <>IsSet(store[k].instagramPostId))

====
